---- MODULE Spec2Model ----
(***************************************************************************)
(* Verification model of the KYRS exoplanet dashboard front end.           *)
(*                                                                         *)
(* Part 1: the visual parameter mapper, frontend/src/utils/planetVisuals.ts *)
(*   generatePlanetVisuals(temperature?, radius?, disposition?)            *)
(*   getPlanetColor(temperature?)                                          *)
(*                                                                         *)
(* Units.  TLC has no reals, so the numbers of the source are scaled:      *)
(*   temperature        Kelvin, integers                                   *)
(*   radius             tenths of an Earth radius   (0.8 -> 8, 10 -> 100)  *)
(*   emissiveIntensity, roughness, metalness                               *)
(*                      thousandths                 (0.05 -> 50, 0.6 -> 600)*)
(* Every product the code forms (x * 1.2, x * 0.5) is exact in these units.*)
(*                                                                         *)
(* JavaScript values.  An optional number is a record with a tag:          *)
(* "number" (val is the number), "NaN", or "undefined".  An optional       *)
(* string is tagged "string" (val is the sequence of its characters) or    *)
(* "undefined".  Strings on which the code searches (String.includes) are  *)
(* sequences of one-character strings; colors are only compared and stay   *)
(* TLA+ strings.                                                           *)
(***************************************************************************)
EXTENDS Integers, Sequences, FiniteSets, TLC

VARIABLES
  temperature,   \* argument of both functions
  radius,        \* argument of generatePlanetVisuals
  disposition,   \* argument of generatePlanetVisuals
  visuals,       \* value returned by generatePlanetVisuals, NoVisuals before the call
  planetColor,   \* value returned by getPlanetColor, NotCalled before the call
  viz,           \* the 3D renderer component (Part 2)
  searchFilters, \* the SearchFilters component (Part 3)
  explorer,      \* the DataExplorer page (Part 3)
  ask,           \* the AskAnalysis page (Part 4)
  request,       \* one call of ExoplanetAPI.request (Part 5)
  starfield      \* the StarfieldBackground component (Part 6)

mapperVars == <<temperature, radius, disposition, visuals, planetColor>>

pageVars == <<searchFilters, explorer, ask, request, starfield>>

vars ==
  <<temperature, radius, disposition, visuals, planetColor, viz,
    searchFilters, explorer, ask, request, starfield>>

\* the value of a component's variable while the component is not rendered
NotRendered == [phase |-> "not rendered"]

----------------------------------------------------------------------------
(* JavaScript values and the operations the code applies to them *)

undefined == [tag |-> "undefined", val |-> 0]
NaN       == [tag |-> "NaN", val |-> 0]
Num(n)    == [tag |-> "number", val |-> n]
Str(s)    == [tag |-> "string", val |-> s]

\* ToBoolean of an optional number: undefined, NaN and 0 are falsy.
Truthy(x) == x.tag = "number" /\ x.val # 0

\* x > n, x >= n, x < n, x <= n for a number literal n; every comparison with
\* NaN or undefined is false.
Gt(x, n) == x.tag = "number" /\ x.val > n
Ge(x, n) == x.tag = "number" /\ x.val >= n
Lt(x, n) == x.tag = "number" /\ x.val < n
Le(x, n) == x.tag = "number" /\ x.val <= n

\* String.prototype.includes: sub occurs in s as a contiguous run of characters.
Includes(s, sub) ==
  \E i \in 0..(Len(s) - Len(sub)) : SubSeq(s, i + 1, i + Len(sub)) = sub

\* d?.includes(sub): undefined (falsy) when d is undefined.
OptIncludes(d, sub) == d.tag = "string" /\ Includes(d.val, sub)

----------------------------------------------------------------------------
(* String literals of planetVisuals.ts *)

\* "Unknown type"
UnknownType ==
  <<"U", "n", "k", "n", "o", "w", "n", " ", "t", "y", "p", "e">>

\* "Hot Jupiter - Scorching gas giant"
HotJupiter ==
  <<"H", "o", "t", " ", "J", "u", "p", "i", "t", "e", "r", " ", "-", " ",
    "S", "c", "o", "r", "c", "h", "i", "n", "g", " ", "g", "a", "s", " ",
    "g", "i", "a", "n", "t">>

\* "Super-heated world"
SuperHeated ==
  <<"S", "u", "p", "e", "r", "-", "h", "e", "a", "t", "e", "d", " ",
    "w", "o", "r", "l", "d">>

\* "Hot rocky world"
HotRocky ==
  <<"H", "o", "t", " ", "r", "o", "c", "k", "y", " ", "w", "o", "r", "l", "d">>

\* "Potentially habitable world"
PotentiallyHabitable ==
  <<"P", "o", "t", "e", "n", "t", "i", "a", "l", "l", "y", " ",
    "h", "a", "b", "i", "t", "a", "b", "l", "e", " ", "w", "o", "r", "l", "d">>

\* "Ocean world candidate"
OceanWorld ==
  <<"O", "c", "e", "a", "n", " ", "w", "o", "r", "l", "d", " ",
    "c", "a", "n", "d", "i", "d", "a", "t", "e">>

\* "Temperate rocky planet"
TemperateRocky ==
  <<"T", "e", "m", "p", "e", "r", "a", "t", "e", " ", "r", "o", "c", "k", "y", " ",
    "p", "l", "a", "n", "e", "t">>

\* "Cold icy world"
ColdIcy ==
  <<"C", "o", "l", "d", " ", "i", "c", "y", " ", "w", "o", "r", "l", "d">>

\* "Frozen ice world"
FrozenIce ==
  <<"F", "r", "o", "z", "e", "n", " ", "i", "c", "e", " ", "w", "o", "r", "l", "d">>

\* "Gas giant"
GasGiant ==
  <<"G", "a", "s", " ", "g", "i", "a", "n", "t">>

\* "Neptune-like ice giant"
NeptuneLike ==
  <<"N", "e", "p", "t", "u", "n", "e", "-", "l", "i", "k", "e", " ",
    "i", "c", "e", " ", "g", "i", "a", "n", "t">>

\* 'Jupiter', 'CONFIRMED', 'FALSE': the needles of the three includes calls
Jupiter == <<"J", "u", "p", "i", "t", "e", "r">>

CONFIRMED == <<"C", "O", "N", "F", "I", "R", "M", "E", "D">>

FALSE_ == <<"F", "A", "L", "S", "E">>

----------------------------------------------------------------------------
(* generatePlanetVisuals, planetVisuals.ts lines 12-118 *)

\* lines 17-23: the initial values of the six locals
DefaultVisuals ==
  [ color             |-> "#4a90e2",
    atmosphereColor   |-> "#6bb6ff",
    emissiveIntensity |-> 200,
    roughness         |-> 700,
    metalness         |-> 200,
    description       |-> UnknownType ]

\* The assignments of each branch of the temperature chain; p holds the locals.
\* lines 31-36
HotJupiterWorld(p) ==
  [p EXCEPT !.color = "#ff4500", !.atmosphereColor = "#ff6347",
            !.emissiveIntensity = 600, !.metalness = 400,
            !.description = HotJupiter]

\* lines 38-43
SuperHeatedWorld(p) ==
  [p EXCEPT !.color = "#ff8c00", !.atmosphereColor = "#ffa500",
            !.emissiveIntensity = 500, !.metalness = 300,
            !.description = SuperHeated]

\* lines 45-49
HotRockyWorld(p) ==
  [p EXCEPT !.color = "#ffb347", !.atmosphereColor = "#ffd700",
            !.emissiveIntensity = 400,
            !.description = HotRocky]

\* lines 53-56
HabitableWorld(p) ==
  [p EXCEPT !.color = "#4a7c59", !.atmosphereColor = "#7ec8e3",
            !.emissiveIntensity = 150,
            !.description = PotentiallyHabitable]

\* lines 58-61
WaterWorld(p) ==
  [p EXCEPT !.color = "#5a8db8", !.atmosphereColor = "#89CFF0",
            !.emissiveIntensity = 200,
            !.description = OceanWorld]

\* lines 63-66
MarsLikeWorld(p) ==
  [p EXCEPT !.color = "#8b7355", !.atmosphereColor = "#d4a574",
            !.emissiveIntensity = 150,
            !.description = TemperateRocky]

\* lines 69-74
ColdWorld(p) ==
  [p EXCEPT !.color = "#b0c4de", !.atmosphereColor = "#add8e6",
            !.emissiveIntensity = 100, !.roughness = 300,
            !.description = ColdIcy]

\* lines 76-82
FrozenWorld(p) ==
  [p EXCEPT !.color = "#e0ffff", !.atmosphereColor = "#f0f8ff",
            !.emissiveIntensity = 50, !.roughness = 200, !.metalness = 500,
            !.description = FrozenIce]

\* Mutant of HabitableBand: the Earth-like range excludes its upper end
\* (radius < 1.5 for radius <= 1.5).
HabitableBand_UpperExclusive(p, r) ==
  IF Truthy(r) /\ Ge(r, 8) /\ Lt(r, 15) THEN HabitableWorld(p)
  ELSE IF Truthy(r) /\ Gt(r, 15) THEN WaterWorld(p)
  ELSE MarsLikeWorld(p)

\* lines 50-67: the habitable band, by radius
HabitableBand(p, r) ==
  IF Truthy(r) /\ Ge(r, 8) /\ Le(r, 15) THEN HabitableWorld(p)
  ELSE IF Truthy(r) /\ Gt(r, 15) THEN WaterWorld(p)
  ELSE MarsLikeWorld(p)

\* Mutant of ClassifyTemperature: the cold band takes its lower end
\* (temperature >= 100 for temperature > 100).
ClassifyTemperature_ColdFrom100(p, t, r) ==
  IF Gt(t, 1500) THEN HotJupiterWorld(p)
  ELSE IF Gt(t, 1000) THEN SuperHeatedWorld(p)
  ELSE IF Gt(t, 700) THEN HotRockyWorld(p)
  ELSE IF Ge(t, 250) /\ Le(t, 350) THEN HabitableBand(p, r)
  ELSE IF Ge(t, 100) /\ Lt(t, 250) THEN ColdWorld(p)
  ELSE FrozenWorld(p)

\* lines 29-83: the if / else-if chain on temperature
ClassifyTemperature(p, t, r) ==
  IF Gt(t, 1500) THEN HotJupiterWorld(p)
  ELSE IF Gt(t, 1000) THEN SuperHeatedWorld(p)
  ELSE IF Gt(t, 700) THEN HotRockyWorld(p)
  ELSE IF Ge(t, 250) /\ Le(t, 350) THEN HabitableBand(p, r)
  ELSE IF Gt(t, 100) /\ Lt(t, 250) THEN ColdWorld(p)
  ELSE FrozenWorld(p)

\* Mutant of GasGiantWorld: the description is overwritten without the
\* includes('Jupiter') test.
GasGiantWorld_AlwaysRenamed(p) ==
  [p EXCEPT !.description = GasGiant, !.metalness = 100, !.roughness = 900]

\* lines 88-91: a gas giant keeps a description that names Jupiter
GasGiantWorld(p) ==
  [p EXCEPT !.description =
              IF Includes(p.description, Jupiter) THEN p.description ELSE GasGiant,
            !.metalness = 100, !.roughness = 900]

\* lines 93-97
NeptuneLikeWorld(p) ==
  [p EXCEPT !.color = "#4169e1", !.atmosphereColor = "#6495ed",
            !.description = NeptuneLike, !.roughness = 800]

\* Mutant of AdjustRadius: the gas-giant test takes radius 10
\* (radius >= 10 for radius > 10).
AdjustRadius_GasGiantFrom10(p, r) ==
  IF Truthy(r) THEN
    IF Ge(r, 100) THEN GasGiantWorld(p)
    ELSE IF Gt(r, 40) THEN NeptuneLikeWorld(p)
    ELSE p
  ELSE p

\* lines 85-99: the adjustment by radius
AdjustRadius(p, r) ==
  IF Truthy(r) THEN
    IF Gt(r, 100) THEN GasGiantWorld(p)
    ELSE IF Gt(r, 40) THEN NeptuneLikeWorld(p)
    ELSE p
  ELSE p

\* Mutant of Brighter: the factor for confirmed planets is 2 instead of 1.2.
Brighter_Doubled(p) ==
  [p EXCEPT !.emissiveIntensity = p.emissiveIntensity * 2]

\* line 103
Brighter(p) ==
  [p EXCEPT !.emissiveIntensity = (p.emissiveIntensity * 12) \div 10]

\* lines 105-107
DimmerGray(p) ==
  [p EXCEPT !.emissiveIntensity = (p.emissiveIntensity * 5) \div 10,
            !.color = "#696969", !.atmosphereColor = "#808080"]

\* Mutant of AdjustDisposition: two independent ifs instead of if / else-if.
AdjustDisposition_BothApplied(p, d) ==
  LET q == IF OptIncludes(d, CONFIRMED) THEN Brighter(p) ELSE p
  IN  IF OptIncludes(d, FALSE_) THEN DimmerGray(q) ELSE q

\* lines 101-108: the adjustment by disposition
AdjustDisposition(p, d) ==
  IF OptIncludes(d, CONFIRMED) THEN Brighter(p)
  ELSE IF OptIncludes(d, FALSE_) THEN DimmerGray(p)
  ELSE p

\* Mutant of generatePlanetVisuals: the early return of line 25 is missing.
generatePlanetVisuals_NoEarlyReturn(t, r, d) ==
  AdjustDisposition(AdjustRadius(ClassifyTemperature(DefaultVisuals, t, r), r), d)

\* Mutant of generatePlanetVisuals: the disposition adjustment runs before the
\* radius adjustment.
generatePlanetVisuals_DispositionFirst(t, r, d) ==
  IF ~Truthy(t) THEN DefaultVisuals
  ELSE AdjustRadius(AdjustDisposition(ClassifyTemperature(DefaultVisuals, t, r), d), r)

\* lines 12-118: the early return for a falsy temperature, then the three
\* steps in the order of the source text.
generatePlanetVisuals(t, r, d) ==
  IF ~Truthy(t) THEN DefaultVisuals
  ELSE AdjustDisposition(AdjustRadius(ClassifyTemperature(DefaultVisuals, t, r), r), d)

----------------------------------------------------------------------------
(* getPlanetColor, planetVisuals.ts lines 120-130 *)

getPlanetColor(t) ==
  IF ~Truthy(t) THEN "#4a90e2"
  ELSE IF Gt(t, 1500) THEN "#ff4500"
  ELSE IF Gt(t, 1000) THEN "#ff8c00"
  ELSE IF Gt(t, 700) THEN "#ffb347"
  ELSE IF Ge(t, 250) /\ Le(t, 350) THEN "#4a7c59"
  ELSE IF Gt(t, 100) THEN "#b0c4de"
  ELSE "#e0ffff"

----------------------------------------------------------------------------
(* Inputs *)

\* The inputs are the thresholds of the code and a few values between them,
\* each with the integers up to TemperatureSpread (RadiusSpread) away.
TemperatureSpread == 1
RadiusSpread == 1

TemperatureLandmarks == {0, 100, 250, 300, 350, 500, 700, 1000, 1500, 2000}
RadiusLandmarks == {0, 8, 10, 15, 40, 100, 120}

Around(landmarks, spread) ==
  UNION {(b - spread)..(b + spread) : b \in landmarks}

Temperatures ==
  {undefined, NaN} \cup {Num(n) : n \in Around(TemperatureLandmarks, TemperatureSpread)}

Radii ==
  {undefined, NaN} \cup {Num(n) : n \in Around(RadiusLandmarks, RadiusSpread)}

\* dispositions of the data set, and strings that exercise includes
CANDIDATE == <<"C", "A", "N", "D", "I", "D", "A", "T", "E">>

FALSE_POSITIVE ==
  <<"F", "A", "L", "S", "E", " ", "P", "O", "S", "I", "T", "I", "V", "E">>

Unknown == <<"U", "n", "k", "n", "o", "w", "n">>

confirmed == <<"c", "o", "n", "f", "i", "r", "m", "e", "d">>

FALSE_CONFIRMED ==
  <<"F", "A", "L", "S", "E", " ", "C", "O", "N", "F", "I", "R", "M", "E", "D">>

\* an absent disposition
NoDisposition == [tag |-> "undefined", val |-> <<>>]

Dispositions ==
  {NoDisposition} \cup
  {Str(s) : s \in {<<>>, CONFIRMED, CANDIDATE, FALSE_POSITIVE, Unknown,
                   confirmed, FALSE_CONFIRMED}}

\* the two result cells before the call that fills them
NotCalled == "not called"

NoVisuals ==
  [ color             |-> NotCalled,
    atmosphereColor   |-> NotCalled,
    emissiveIntensity |-> -1,
    roughness         |-> -1,
    metalness         |-> -1,
    description       |-> <<>> ]

----------------------------------------------------------------------------
(***************************************************************************)
(* Part 2: the 3D planet renderer, the component ExoplanetVisualization of *)
(* frontend/src/components/ScientificLayout.tsx (lines 154-498).           *)
(*                                                                         *)
(* The component keeps seven refs and one effect.  The effect builds a     *)
(* session (scene, camera, renderer, meshes, textures), starts the frame   *)
(* loop and registers a resize listener; its cleanup tears the session     *)
(* down.  React runs the effect after mount, runs cleanup then effect when *)
(* one of the seven props of the dependency list changes, and runs the     *)
(* cleanup on unmount.                                                     *)
(*                                                                         *)
(* State.  The variable viz is one record: the refs, the container, the    *)
(* browser's frame-callback list and resize listeners, and the sequence of *)
(* sessions built so far (session k is the k-th run of the effect).  A ref *)
(* to an object of session k holds k; 0 is null.                           *)
(*                                                                         *)
(* Units.  roughness in thousandths as in Part 1; angles in 1e-4 rad       *)
(* (rotationSpeed 0.001 -> 10); time in hundredths (0.01 -> 1).  The       *)
(* wobble rotation.z and the camera sway are functions of time alone       *)
(* (lines 431, 441-443) and are not stored.                                *)
(***************************************************************************)

\* lines 154-163: the defaults of the props
DefaultConfig ==
  [ atmosphereColor   |-> "#4299e1",
    planetColor       |-> "#4a90e2",
    rotationSpeed     |-> 10,
    size              |-> 2,
    emissiveIntensity |-> 200,
    roughness         |-> 700,
    metalness         |-> 200 ]

\* line 495: the dependency list of the effect
ConfigFields ==
  {"atmosphereColor", "planetColor", "rotationSpeed", "size",
   "emissiveIntensity", "roughness", "metalness"}

\* scene objects by class: the traversal of the cleanup tests instanceof Mesh
Lights == {"ambientLight", "sunLight", "rimLight", "atmosphereLight"}
Meshes == {"planet", "clouds", "atmosphere", "innerGlow"}
PointClouds == {"stars"}

\* Mutant of HasClouds: the shell is also built at roughness 0.5.
HasClouds_FromHalf(cfg) == cfg.roughness >= 500

\* line 290: if (roughness > 0.5)
HasClouds(cfg) == cfg.roughness > 500

\* lines 196-419: what the effect adds to the scene
SceneObjects(cfg) ==
  Lights \cup {"planet", "atmosphere", "innerGlow", "stars"}
         \cup (IF HasClouds(cfg) THEN {"clouds"} ELSE {})

\* lines 246, 266, 317: the canvas textures the effect creates
SceneTextures(cfg) ==
  {"texture", "bumpMap"} \cup (IF HasClouds(cfg) THEN {"cloudTexture"} ELSE {})

\* lines 176-419: the objects of one run of the effect, before the first frame.
\* geometries, materials, textures: those created and not yet disposed.
NewSession(cfg, w, h) ==
  [ config          |-> cfg,
    objects         |-> SceneObjects(cfg),
    geometries      |-> SceneObjects(cfg) \ Lights,
    materials       |-> SceneObjects(cfg) \ Lights,
    textures        |-> SceneTextures(cfg),
    rendererLive    |-> TRUE,
    aspect          |-> <<w, h>>,
    size            |-> <<w, h>>,
    time            |-> 0,
    planetRotationX |-> 0,
    planetRotationY |-> 0,
    cloudsRotationY |-> 0,
    starsRotationY  |-> 0,
    disposed        |-> FALSE ]

\* Mutant of Animate: the cloud shell turns at the planet's rate.
Animate_CloudsAtPlanetRate(s, k) ==
  LET speed == s.sessions[k].config.rotationSpeed
      s1 == [s EXCEPT !.sessions[k].time = @ + 1]
      s2 == IF s1.planetRef # 0
              THEN [s1 EXCEPT
                      !.sessions[s1.planetRef].planetRotationY = @ + speed,
                      !.sessions[s1.planetRef].planetRotationX = @ + speed \div 10]
              ELSE s1
      s3 == IF s2.cloudsRef # 0
              THEN [s2 EXCEPT !.sessions[s2.cloudsRef].cloudsRotationY = @ + speed]
              ELSE s2
      s4 == [s3 EXCEPT !.sessions[k].starsRotationY = @ + 1]
  IN  [s4 EXCEPT
         !.frameId = s4.nextRaf,
         !.rafQueue = @ \cup {[id |-> s4.nextRaf, session |-> k]},
         !.nextRaf = @ + 1]

\* Mutant of Animate: the frame does not request the next one.
Animate_NoReschedule(s, k) ==
  [s EXCEPT !.sessions[k].time = @ + 1]

\* lines 423-451: one frame of session k.  animate closes over rotationSpeed,
\* time, stars, renderer, scene and camera of its own run and reads the meshes
\* through the refs.
Animate(s, k) ==
  LET speed == s.sessions[k].config.rotationSpeed
      s1 == [s EXCEPT !.sessions[k].time = @ + 1]
      s2 == IF s1.planetRef # 0
              THEN [s1 EXCEPT
                      !.sessions[s1.planetRef].planetRotationY = @ + speed,
                      !.sessions[s1.planetRef].planetRotationX = @ + speed \div 10]
              ELSE s1
      s3 == IF s2.cloudsRef # 0
              THEN [s2 EXCEPT
                      !.sessions[s2.cloudsRef].cloudsRotationY =
                          @ + (speed * 12) \div 10]
              ELSE s2
      s4 == [s3 EXCEPT !.sessions[k].starsRotationY = @ + 1]
  IN  [s4 EXCEPT
         !.frameId = s4.nextRaf,
         !.rafQueue = @ \cup {[id |-> s4.nextRaf, session |-> k]},
         !.nextRaf = @ + 1]

\* Mutant of HandleResize: the handler also restarts the loop.
HandleResize_Restart(s) ==
  IF ~s.mountRef \/ s.cameraRef = 0 \/ s.rendererRef = 0
    THEN s
    ELSE Animate([s EXCEPT !.sessions[s.cameraRef].aspect = <<s.width, s.height>>,
                           !.sessions[s.rendererRef].size = <<s.width, s.height>>],
                 s.rendererRef)

\* lines 456-463
HandleResize(s) ==
  IF ~s.mountRef \/ s.cameraRef = 0 \/ s.rendererRef = 0
    THEN s
    ELSE [s EXCEPT !.sessions[s.cameraRef].aspect = <<s.width, s.height>>,
                   !.sessions[s.rendererRef].size = <<s.width, s.height>>]

\* lines 172-465: one run of the effect with the props cfg.  It returns before
\* building anything only when the container ref is empty (line 173); the
\* first frame runs inside the effect (line 453).
Construct(s, cfg) ==
  IF ~s.mountRef
    THEN [s EXCEPT !.cleanup = 0]
    ELSE
      LET k == Len(s.sessions) + 1
          built ==
            [s EXCEPT
               !.sessions = Append(@, NewSession(cfg, s.width, s.height)),
               !.sceneRef = k, !.cameraRef = k, !.rendererRef = k,
               !.children = @ \cup {k},
               !.planetRef = k,
               !.cloudsRef = IF HasClouds(cfg) THEN k ELSE @]
      IN  [Animate(built, k) EXCEPT
             !.listeners = @ \cup {k}, !.cleanup = k]

\* lines 473-485: the traversal disposes geometry and material of every
\* object that is a Mesh, then the scene is cleared.
DisposeScene(sess) ==
  [sess EXCEPT !.geometries = @ \ (sess.objects \cap Meshes),
               !.materials  = @ \ (sess.objects \cap Meshes),
               !.objects    = {}]

\* lines 468-494: the cleanup returned by run k of the effect.  It removes its
\* own listener, cancels the frame named by frameId, and reaches scene and
\* renderer through the refs; the canvas is removed only when the container
\* ref is still set (line 488); texture and bumpMap are its own locals.
Dispose(s, k) ==
  LET s1 == [s EXCEPT !.listeners = @ \ {k}]
      s2 == IF s1.frameId # 0
              THEN [s1 EXCEPT !.rafQueue = {cb \in @ : cb.id # s1.frameId}]
              ELSE s1
      s3 == IF s2.sceneRef # 0
              THEN [s2 EXCEPT !.sessions[s2.sceneRef] = DisposeScene(@)]
              ELSE s2
      s4 == IF s3.rendererRef # 0
              THEN [s3 EXCEPT
                      !.sessions[s3.rendererRef].rendererLive = FALSE,
                      !.children = IF s3.mountRef THEN @ \ {s3.rendererRef} ELSE @]
              ELSE s3
  IN  [s4 EXCEPT !.sessions[k].textures = @ \ {"texture", "bumpMap"},
                 !.sessions[k].disposed = TRUE,
                 !.cleanup = 0]

\* Mutant of Rebuild: the new session is built before the old one is disposed.
Rebuild_SetupFirst(s, cfg) ==
  LET old == s.cleanup
      new == Construct(s, cfg)
  IN  IF old = 0 THEN new ELSE [Dispose(new, old) EXCEPT !.cleanup = new.cleanup]

\* line 495: a change of a dependency runs the previous cleanup, then the effect
Rebuild(s, cfg) ==
  Construct(IF s.cleanup = 0 THEN s ELSE Dispose(s, s.cleanup), cfg)

\* the cleanup React holds for the last run of the effect, if that run
\* returned one
RunCleanup(s) == IF s.cleanup = 0 THEN s ELSE Dispose(s, s.cleanup)

----------------------------------------------------------------------------
(* Inputs of the renderer *)

MaxSessions == 2   \* runs of the effect per component instance
MaxFrames   == 2   \* frames per session, the first one included

\* line 497: the div has min-h-[300px]; lengths are in hundreds of pixels
MinHeight == 3

\* w-full: the width follows the parent, which may be collapsed
ContainerWidths == {0, 8}

\* clientWidth and clientHeight of the container: 0 by 0 while it is not laid
\* out, else the parent's width and the minimum height
ContainerSizes ==
  {<<0, 0>>} \cup {<<w, MinHeight>> : w \in ContainerWidths}

\* two values per prop, and roughness on both sides of 0.5
ConfigValues(f) ==
  CASE f = "atmosphereColor"   -> {"#4299e1", "#87ceeb"}
    [] f = "planetColor"       -> {"#4a90e2", "#ff4500"}
    [] f = "rotationSpeed"     -> {10, 20}
    [] f = "size"              -> {2, 3}
    [] f = "emissiveIntensity" -> {200, 600}
    [] f = "roughness"         -> {500, 501, 700}
    [] f = "metalness"         -> {200, 400}

InitialConfigs ==
  {[DefaultConfig EXCEPT !.roughness = r] : r \in ConfigValues("roughness")}

\* the component before its first commit: refs as useRef(null) left them
\* (lines 164-170), nothing in the container, nothing scheduled
NotMounted(cfg, w, h) ==
  [ phase       |-> "initial",
    props       |-> cfg,
    width       |-> w,
    height      |-> h,
    children    |-> {},
    mountRef    |-> FALSE,
    sceneRef    |-> 0,
    cameraRef   |-> 0,
    rendererRef |-> 0,
    planetRef   |-> 0,
    cloudsRef   |-> 0,
    frameId     |-> 0,
    rafQueue    |-> {},
    nextRaf     |-> 1,
    listeners   |-> {},
    cleanup     |-> 0,
    sessions    |-> <<>> ]

----------------------------------------------------------------------------
(* The calls *)

VisualsInit ==
  /\ temperature \in Temperatures
  /\ radius \in Radii
  /\ disposition \in Dispositions
  /\ visuals = NoVisuals
  /\ planetColor = NotCalled
  /\ viz = NotMounted(DefaultConfig, 0, 0)
  /\ searchFilters = NotRendered
  /\ explorer = NotRendered
  /\ ask = NotRendered
  /\ request = NotRendered
  /\ starfield = NotRendered

\* PlanetDetails.tsx line 81: the page calls the mapper with the planet's data.
GeneratePlanetVisuals ==
  /\ visuals = NoVisuals
  /\ visuals' = generatePlanetVisuals(temperature, radius, disposition)
  /\ UNCHANGED <<temperature, radius, disposition, planetColor, viz, pageVars>>

\* a 2D badge asks for the simple color of the same temperature
GetPlanetColor ==
  /\ planetColor = NotCalled
  /\ planetColor' = getPlanetColor(temperature)
  /\ UNCHANGED <<temperature, radius, disposition, visuals, viz, pageVars>>

VisualsNext == GeneratePlanetVisuals \/ GetPlanetColor

VisualsSpec == VisualsInit /\ [][VisualsNext]_vars

----------------------------------------------------------------------------
(* The renderer's steps *)

RendererInit ==
  /\ temperature = undefined
  /\ radius = undefined
  /\ disposition = NoDisposition
  /\ visuals = NoVisuals
  /\ planetColor = NotCalled
  /\ \E cfg \in InitialConfigs, wh \in ContainerSizes :
       viz = NotMounted(cfg, wh[1], wh[2])
  /\ searchFilters = NotRendered
  /\ explorer = NotRendered
  /\ ask = NotRendered
  /\ request = NotRendered
  /\ starfield = NotRendered

\* first commit: React attaches the div to mountRef (line 497), then runs the
\* effect
Mount ==
  /\ viz.phase = "initial"
  /\ viz' = [Construct([viz EXCEPT !.mountRef = TRUE], viz.props)
               EXCEPT !.phase = "mounted"]
  /\ UNCHANGED <<mapperVars, pageVars>>

\* the parent renders the component with one prop of the dependency list
\* changed: cleanup of the previous run, then the effect (line 495)
ChangeConfig ==
  /\ viz.phase = "mounted"
  /\ Len(viz.sessions) < MaxSessions
  /\ \E f \in ConfigFields :
       \E v \in ConfigValues(f) \ {viz.props[f]} :
         LET cfg == [viz.props EXCEPT ![f] = v]
         IN  viz' = Rebuild([viz EXCEPT !.props = cfg], cfg)
  /\ UNCHANGED <<mapperVars, pageVars>>

\* the browser runs one callback of its animation-frame list (line 450)
Frame ==
  /\ \E cb \in viz.rafQueue :
       /\ viz.sessions[cb.session].time < MaxFrames
       /\ viz' = Animate([viz EXCEPT !.rafQueue = @ \ {cb}], cb.session)
  /\ UNCHANGED <<mapperVars, pageVars>>

\* the window is resized: the container gets new dimensions and the browser
\* calls the registered resize listeners (line 465).  Every registered
\* handler does the same through the refs, so one call stands for all.
Resize ==
  /\ viz.phase # "initial"
  /\ \E wh \in ContainerSizes \ {<<viz.width, viz.height>>} :
       LET s == [viz EXCEPT !.width = wh[1], !.height = wh[2]]
       IN  viz' = IF s.listeners = {} THEN s ELSE HandleResize(s)
  /\ UNCHANGED <<mapperVars, pageVars>>

\* unmount as React 16 and earlier commit it: the effect's cleanup runs while
\* the div is still attached to mountRef, then the ref is detached
UnmountCleanupFirst ==
  /\ viz.phase = "mounted"
  /\ viz' = [RunCleanup(viz) EXCEPT !.mountRef = FALSE, !.phase = "unmounted"]
  /\ UNCHANGED <<mapperVars, pageVars>>

\* unmount as React 17 and later commit it: the ref is detached in the
\* mutation phase and the effect's cleanup is deferred to the passive flush
UnmountDetachFirst ==
  /\ viz.phase = "mounted"
  /\ viz' = [viz EXCEPT !.mountRef = FALSE, !.phase = "unmounting"]
  /\ UNCHANGED <<mapperVars, pageVars>>

\* the passive flush that follows UnmountDetachFirst
FlushCleanup ==
  /\ viz.phase = "unmounting"
  /\ viz' = [RunCleanup(viz) EXCEPT !.phase = "unmounted"]
  /\ UNCHANGED <<mapperVars, pageVars>>

RendererNext ==
  \/ Mount
  \/ ChangeConfig
  \/ Frame
  \/ Resize
  \/ UnmountCleanupFirst
  \/ UnmountDetachFirst
  \/ FlushCleanup

RendererSpec == RendererInit /\ [][RendererNext]_vars


----------------------------------------------------------------------------
(* Properties of the visual parameter mapper, checked under VisualsSpec *)

\* generatePlanetVisuals has returned / getPlanetColor has returned
Returned == visuals # NoVisuals
ColorReturned == planetColor # NotCalled

IsNumber(x) == x.tag = "number"
Absent(x)   == x.tag = "undefined"

\* the disposition takes the branch of lines 104-107
GrayedOut(d) == OptIncludes(d, FALSE_) /\ ~OptIncludes(d, CONFIRMED)

\* what the temperature chain chose for the call of this state
Band == ClassifyTemperature(DefaultVisuals, temperature, radius)

FrozenProfile(v) ==
  /\ v.color = "#e0ffff"
  /\ v.emissiveIntensity = 50
  /\ v.roughness = 200
  /\ v.metalness = 500

DefaultProfile(v) ==
  /\ v.color = "#4a90e2"
  /\ v.atmosphereColor = "#6bb6ff"
  /\ v.emissiveIntensity = 200
  /\ v.roughness = 700
  /\ v.metalness = 200
  /\ v.description = UnknownType

\* C1, as stated: for every temperature value t <= 100, with radius and
\* disposition absent, generatePlanetVisuals returns the frozen-world profile
\* (color '#e0ffff', emissiveIntensity 0.05, roughness 0.2, metalness 0.5).
\* Violated at temperature = 0, which line 25 takes for an absent temperature.
C1_FrozenUpTo100 ==
  (Returned /\ IsNumber(temperature) /\ temperature.val <= 100
     /\ Absent(radius) /\ Absent(disposition))
  => FrozenProfile(visuals)

\* C1, amended: for every temperature value t <= 100 other than 0, with radius
\* and disposition absent, generatePlanetVisuals returns the frozen-world
\* profile; for temperature 0 it returns the default profile.
C1_FrozenUpTo100ExceptZero ==
  (Returned /\ IsNumber(temperature) /\ temperature.val <= 100
     /\ Absent(radius) /\ Absent(disposition))
  => IF temperature.val # 0 THEN FrozenProfile(visuals)
                            ELSE DefaultProfile(visuals)

C1_Witness ==
  /\ Returned
  /\ temperature = Num(100)
  /\ Absent(radius) /\ Absent(disposition)
  /\ visuals.description = FrozenIce

\* C2, as stated: a temperature on a boundary shared by two rows of the table
\* gets the profile of the earlier (hotter) row: t = 1000 the very-hot profile
\* (emissive 0.5), t = 700 the hot-rocky profile (emissive 0.4), t = 250 a
\* habitable-band profile.  The disposition is one that leaves the emissive
\* intensity alone and the radius one that leaves the description alone.
\* Violated at t = 700 (frozen profile) and t = 1000 (hot-rocky profile).
C2_BoundaryGetsHotterRow ==
  (Returned /\ ~OptIncludes(disposition, CONFIRMED) /\ ~OptIncludes(disposition, FALSE_)
     /\ ~Gt(radius, 40))
  => /\ temperature = Num(1000) =>
          visuals.emissiveIntensity = 500 /\ visuals.description = SuperHeated
     /\ temperature = Num(700) =>
          visuals.emissiveIntensity = 400 /\ visuals.description = HotRocky
     /\ temperature = Num(250) =>
          visuals.description
            \in {PotentiallyHabitable, OceanWorld, TemperateRocky}

\* C3, as stated: no temperature above 100 K, in particular none strictly
\* between 350 and 700 K, is classified as a frozen world (color '#e0ffff',
\* description 'Frozen ice world', emissive 0.05).  The radius is one that
\* leaves the description alone.  Violated for 350 < t <= 700.
C3_FrozenOnlyUpTo100 ==
  (Returned /\ Gt(temperature, 100) /\ ~Gt(radius, 40))
  => visuals.description # FrozenIce

\* The program takes a temperature for present when it passes the test of
\* line 25: it is a number other than 0 (DataUpload.tsx line 259 and
\* PlanetDetails.tsx line 84 apply the same test to the same field).  An
\* undefined temperature, NaN and 0 are taken for absent.
Present(t) == IsNumber(t) /\ t.val # 0

\* C4: when temperature is absent (undefined, and likewise NaN or 0),
\* generatePlanetVisuals returns the fixed default profile (color '#4a90e2',
\* atmosphereColor '#6bb6ff', emissiveIntensity 0.2, roughness 0.7, metalness
\* 0.2, description 'Unknown type') for every radius and every disposition;
\* and for every combination of present or absent inputs the call can be made
\* and returns a profile with all six fields.
C4_AbsentTemperatureDefault ==
  /\ visuals = NoVisuals => ENABLED GeneratePlanetVisuals
  /\ Returned =>
       /\ DOMAIN visuals = {"color", "atmosphereColor", "emissiveIntensity",
                            "roughness", "metalness", "description"}
       /\ visuals.color \in STRING /\ visuals.atmosphereColor \in STRING
       /\ visuals.emissiveIntensity \in Nat
       /\ visuals.roughness \in Nat /\ visuals.metalness \in Nat
       /\ Len(visuals.description) > 0
  /\ (Returned /\ ~Present(temperature)) => DefaultProfile(visuals)

\* an absent temperature with a radius and a disposition that would each
\* change the profile had the function gone on
C4_Witness ==
  /\ Returned
  /\ Absent(temperature)
  /\ Gt(radius, 100)
  /\ OptIncludes(disposition, FALSE_)
  /\ visuals.description = UnknownType

\* C5: inside the habitable band (250 <= temperature <= 350) the temperature
\* chain chooses the profile by radius: radius in [0.8, 1.5] gives color
\* '#4a7c59' and description 'Potentially habitable world'; radius in
\* (1.5, 4] gives the ocean-world blue '#5a8db8'; an absent radius or a radius
\* below 0.8 gives the Mars-like brown '#8b7355'.  For these radii the later
\* steps leave the description as chosen, and the color too unless the
\* disposition grays it; temperature = 300, radius = 1.0, no disposition
\* returns '#4a7c59', 'Potentially habitable world'.
C5_HabitableBandByRadius ==
  (Returned /\ Ge(temperature, 250) /\ Le(temperature, 350))
  => /\ (Ge(radius, 8) /\ Le(radius, 15)) =>
          /\ Band.color = "#4a7c59"
          /\ Band.description = PotentiallyHabitable
          /\ visuals.description = PotentiallyHabitable
          /\ ~GrayedOut(disposition) => visuals.color = "#4a7c59"
     /\ (Gt(radius, 15) /\ Le(radius, 40)) =>
          /\ Band.color = "#5a8db8"
          /\ ~GrayedOut(disposition) => visuals.color = "#5a8db8"
     /\ (Absent(radius) \/ Lt(radius, 8)) =>
          /\ Band.color = "#8b7355"
          /\ ~GrayedOut(disposition) => visuals.color = "#8b7355"
     /\ (temperature = Num(300) /\ radius = Num(10) /\ Absent(disposition)) =>
          visuals.color = "#4a7c59" /\ visuals.description = PotentiallyHabitable

\* the upper end of the Earth-like range
C5_Witness ==
  /\ Returned
  /\ temperature = Num(350)
  /\ radius = Num(15)
  /\ Absent(disposition)
  /\ visuals.color = "#4a7c59"

C8_DispositionStep ==
  (Returned /\ Present(temperature))
  => LET earlier == AdjustRadius(Band, radius)
         plain   == generatePlanetVisuals(temperature, radius, NoDisposition)
     IN  /\ plain = earlier
         /\ OptIncludes(disposition, CONFIRMED) =>
              /\ 10 * visuals.emissiveIntensity = 12 * earlier.emissiveIntensity
              /\ visuals = [plain EXCEPT
                              !.emissiveIntensity = visuals.emissiveIntensity]
         /\ GrayedOut(disposition) =>
              /\ 10 * visuals.emissiveIntensity = 5 * earlier.emissiveIntensity
              /\ visuals.color = "#696969"
              /\ visuals.atmosphereColor = "#808080"
              /\ visuals = [plain EXCEPT
                              !.emissiveIntensity = visuals.emissiveIntensity,
                              !.color = "#696969", !.atmosphereColor = "#808080"]
         /\ (~OptIncludes(disposition, CONFIRMED) /\ ~OptIncludes(disposition, FALSE_))
              => visuals = plain
         /\ 100 * visuals.emissiveIntensity # 60 * earlier.emissiveIntensity
         /\ (temperature = Num(2000) /\ disposition = Str(FALSE_POSITIVE)) =>
              visuals.emissiveIntensity = 300

C8_Witness ==
  /\ Returned
  /\ temperature = Num(2000)
  /\ disposition = Str(FALSE_POSITIVE)
  /\ visuals.emissiveIntensity = 300
  /\ visuals.color = "#696969"

C10_SimpleColorConsistent ==
  (Returned /\ ColorReturned /\ Absent(radius) /\ Absent(disposition))
  => planetColor = visuals.color

\* C12: every profile generatePlanetVisuals returns, for every temperature,
\* radius and disposition, has emissiveIntensity, roughness and metalness
\* within [0, 1] (0..1000 thousandths); the largest emissive intensity is the
\* hottest band's 0.6 times the 1.2 of a confirmed planet, 0.72.
C12_ScalarsInUnitInterval ==
  Returned =>
    /\ visuals.emissiveIntensity \in 0..1000
    /\ visuals.roughness \in 0..1000
    /\ visuals.metalness \in 0..1000
    /\ visuals.emissiveIntensity <= 720

C12_Witness ==
  /\ Returned
  /\ Gt(temperature, 1500)
  /\ OptIncludes(disposition, CONFIRMED)
  /\ visuals.emissiveIntensity = 720

----------------------------------------------------------------------------
(* Properties of the renderer, checked under RendererSpec *)

\* the runs of the effect so far
Sessions == 1..Len(viz.sessions)

\* session k has been torn down: its cleanup has run
Disposed(k) == viz.sessions[k].disposed

\* session k is live: built, and its cleanup has not run
Live(k) == ~viz.sessions[k].disposed

\* the frame callbacks of session k in the browser's list
Pending(k) == {cb \in viz.rafQueue : cb.session = k}

\* C13: once a session has been disposed, on unmount or before a rebuild, the
\* container holds no drawing surface of it and none of its frame callbacks
\* is still scheduled.
C13_NothingLeftAfterDisposal ==
  \A k \in Sessions :
    Disposed(k) => k \notin viz.children /\ Pending(k) = {}

\* C14: once a session has been disposed, every geometry and every material
\* its construction created (planet, cloud shell, both atmosphere shells,
\* starfield) has been released.
C14_GeometriesAndMaterialsReleased ==
  \A k \in Sessions :
    Disposed(k) =>
      viz.sessions[k].geometries = {} /\ viz.sessions[k].materials = {}

\* C15: once a session has been disposed, every texture it generated (base
\* color, bump and, with a cloud shell, the cloud texture) has been released,
\* so only a live session holds textures.
C15_TexturesReleased ==
  \A k \in Sessions : Disposed(k) => viz.sessions[k].textures = {}

\* C16: no session is built while the container has zero width or zero
\* height: a run of the effect then adds no surface and schedules no frame.
C16_NoConstructionAtZeroSize ==
  [][ Len(viz'.sessions) > Len(viz.sessions)
        => viz.width > 0 /\ viz.height > 0 ]_vars

\* C17: every live session, the first one or one built by a rebuild, has a
\* cloud shell in its scene exactly when its roughness is above 0.5: none at
\* 0.5, one at 0.501.
C17_CloudShellIffRough ==
  \A k \in Sessions :
    Live(k) =>
      ("clouds" \in viz.sessions[k].objects
         <=> viz.sessions[k].config.roughness > 500)

\* a rebuild from roughness 0.5 to 0.501: the new scene has the shell
C17_Witness ==
  /\ Len(viz.sessions) = 2
  /\ viz.sessions[1].config.roughness = 500
  /\ viz.sessions[2].config.roughness = 501
  /\ Live(2)
  /\ "clouds" \in viz.sessions[2].objects

\* C18: while the component is mounted, the last session is live and built
\* from the current props, whichever of the seven fields changed last; every
\* earlier session was disposed before it was built: it has no surface in the
\* container, no listener, no pending frame and a disposed renderer.  So the
\* container never holds more than one surface and at most one session is
\* live.
C18_TeardownThenRebuild ==
  /\ Cardinality(viz.children) <= 1
  /\ Cardinality({k \in Sessions : Live(k)}) <= 1
  /\ \A k \in Sessions :
       Disposed(k) =>
         /\ k \notin viz.listeners
         /\ Pending(k) = {}
         /\ ~viz.sessions[k].rendererLive
         /\ viz.sessions[k].objects = {}
         /\ (viz.phase = "mounted" => k \notin viz.children)
  /\ viz.phase = "mounted" =>
       LET n == Len(viz.sessions)
       IN  /\ n >= 1
           /\ Live(n)
           /\ viz.sessions[n].config = viz.props
           /\ viz.children = {n}
           /\ \A k \in 1..(n - 1) : Disposed(k)

\* a change of metalness alone has replaced session 1 by session 2
C18_Witness ==
  /\ viz.phase = "mounted"
  /\ Len(viz.sessions) = 2
  /\ viz.sessions[2].config =
       [viz.sessions[1].config EXCEPT !.metalness = 400]
  /\ viz.sessions[1].config.metalness = 200
  /\ Disposed(1)
  /\ Live(2)
  /\ viz.children = {2}

\* C19: a live session always has exactly one frame callback pending, the one
\* frameId names, so each frame has scheduled the next; and the browser's
\* list never holds more than one callback of the component.
C19_OnePendingFrame ==
  /\ Cardinality(viz.rafQueue) <= 1
  /\ \A k \in Sessions :
       Live(k) =>
         /\ Cardinality(Pending(k)) = 1
         /\ \A cb \in Pending(k) : cb.id = viz.frameId

\* a rebuilt session that has run a frame from the browser's list
C19_Witness ==
  /\ Len(viz.sessions) = 2
  /\ Live(2)
  /\ viz.sessions[2].time = 2
  /\ viz.rafQueue = {[id |-> viz.frameId, session |-> 2]}

\* C20: a step that changes the container's dimensions changes nothing else
\* but the camera aspect and the renderer size of sessions that are not
\* disposed: scene objects, geometries, materials, textures, frame list,
\* frameId, rotations and time stay as they were.  While the component is
\* mounted the live session's aspect and size become the new dimensions.  A
\* disposed session has no listener left, and no resize changes it.
C20_ResizeOnlyAspectAndSize ==
  /\ [](\A k \in Sessions : Disposed(k) => k \notin viz.listeners)
  /\ [][ <<viz'.width, viz'.height>> # <<viz.width, viz.height>> =>
           /\ [viz' EXCEPT !.width = viz.width, !.height = viz.height,
                           !.sessions = viz.sessions] = viz
           /\ Len(viz'.sessions) = Len(viz.sessions)
           /\ \A k \in Sessions :
                /\ [viz'.sessions[k] EXCEPT !.aspect = viz.sessions[k].aspect,
                                            !.size = viz.sessions[k].size]
                     = viz.sessions[k]
                /\ Disposed(k) => viz'.sessions[k] = viz.sessions[k]
                /\ Live(k) /\ viz.phase = "mounted" =>
                     /\ viz'.sessions[k].aspect = <<viz'.width, viz'.height>>
                     /\ viz'.sessions[k].size = <<viz'.width, viz'.height>>
       ]_vars

\* the container was resized after the rebuild: the live session follows it,
\* the disposed one kept the size it had
C20_Witness ==
  /\ viz.phase = "mounted"
  /\ Len(viz.sessions) = 2
  /\ Disposed(1)
  /\ Live(2)
  /\ viz.sessions[2].size = <<viz.width, viz.height>>
  /\ viz.sessions[1].size # viz.sessions[2].size
  /\ viz.sessions[2].time = 1

\* C21: in a live session that has run n frames (the one inside the effect
\* included) the time accumulator is n x 0.01, the planet has turned
\* n x rotationSpeed about its vertical axis, and a cloud shell has turned 1.2
\* times as far; a session built by a rebuild counts from zero again,
\* whatever the session before it had reached.
C21_FixedIncrements ==
  \A k \in Sessions :
    Live(k) =>
      LET sess == viz.sessions[k]
          n == sess.time
      IN  /\ n >= 1
          /\ sess.planetRotationY = n * sess.config.rotationSpeed
          /\ "clouds" \in sess.objects =>
               10 * sess.cloudsRotationY = 12 * sess.planetRotationY
          /\ "clouds" \notin sess.objects => sess.cloudsRotationY = 0

\* a rebuilt session with a cloud shell after its first frame, following a
\* session that had run two
C21_Witness ==
  /\ Len(viz.sessions) = 2
  /\ viz.sessions[1].time = 2
  /\ Live(2)
  /\ viz.sessions[2].time = 1
  /\ "clouds" \in viz.sessions[2].objects
  /\ viz.sessions[2].planetRotationY = 20
  /\ viz.sessions[2].cloudsRotationY = 24

\* C22: while the component is mounted, each of the five handles (scene,
\* camera, renderer, planet mesh, cloud shell) is empty or refers to an
\* object of the current session, so a frame never turns a mesh of a
\* disposed session.
C22_HandlesCurrentOrEmpty ==
  viz.phase = "mounted" =>
    \A ref \in {viz.sceneRef, viz.cameraRef, viz.rendererRef,
                viz.planetRef, viz.cloudsRef} :
      ref = 0 \/ (ref = Len(viz.sessions) /\ Live(ref))

----------------------------------------------------------------------------
(***************************************************************************)
(* Part 3: the Data Explorer page.                                         *)
(*   SearchFilters, frontend/src/components/SearchFilters.tsx              *)
(*   DataExplorer,  frontend/src/pages/DataUpload.tsx lines 174-331        *)
(*   ExoplanetAPI.getExoplanets, frontend/src/services/api.ts 146-159      *)
(*                                                                         *)
(* SearchFilters keeps the sliders and its own filters and reports every   *)
(* change through onFilterChange, which is DataExplorer.handleFilterChange;*)
(* a change of DataExplorer's filters runs the effect that calls           *)
(* loadPlanets.  A handler and everything it calls is one step.  Requests  *)
(* complete later, in any order.                                           *)
(*                                                                         *)
(* Units: temperatures in Kelvin, radii in tenths of an Earth radius       *)
(* (0.8 -> 8, 25 -> 250).  Optional values are tagged as in Part 1.        *)
(***************************************************************************)

\* the test x === true; a boolean is tagged "boolean" with val 1 for true
StrictlyTrue(x) == x.tag = "boolean" /\ x.val = 1

\* obj.name for an object that may lack the property
Prop(obj, name) == IF name \in DOMAIN obj THEN obj[name] ELSE undefined

\* String.prototype.trim on a sequence of characters (blanks only)
RECURSIVE TrimStart(_)
TrimStart(q) ==
  IF q # <<>> /\ Head(q) = " " THEN TrimStart(Tail(q)) ELSE q

RECURSIVE TrimEnd(_)
TrimEnd(q) ==
  IF q # <<>> /\ q[Len(q)] = " " THEN TrimEnd(SubSeq(q, 1, Len(q) - 1)) ELSE q

Trim(q) == TrimEnd(TrimStart(q))

\* SearchFilters.tsx lines 14-26: the state after the first render
InitialSearchFilters ==
  [ phase       |-> "rendered",
    searchQuery |-> <<>>,
    showFilters |-> FALSE,
    filters     |-> [ min_temp    |-> undefined,
                      max_temp    |-> undefined,
                      min_radius  |-> undefined,
                      max_radius  |-> undefined,
                      disposition |-> NoDisposition ],
    tempRange   |-> <<0, 5000>>,
    radiusRange |-> <<0, 250>> ]

\* SearchFilters.tsx lines 37-49; index 1 is the minimum slider (index 0 of
\* the source), index 2 the maximum
handleTempRangeChange(sf, index, value) ==
  LET newRange == [sf.tempRange EXCEPT ![index] = value]
  IN  [sf EXCEPT
         !.tempRange = newRange,
         !.filters =
           [@ EXCEPT
              !.min_temp = IF newRange[1] > 0 THEN Num(newRange[1]) ELSE undefined,
              !.max_temp = IF newRange[2] < 5000 THEN Num(newRange[2]) ELSE undefined]]

\* SearchFilters.tsx lines 51-63
handleRadiusRangeChange(sf, index, value) ==
  LET newRange == [sf.radiusRange EXCEPT ![index] = value]
  IN  [sf EXCEPT
         !.radiusRange = newRange,
         !.filters =
           [@ EXCEPT
              !.min_radius = IF newRange[1] > 0 THEN Num(newRange[1]) ELSE undefined,
              !.max_radius = IF newRange[2] < 250 THEN Num(newRange[2]) ELSE undefined]]

\* SearchFilters.tsx lines 65-72: disposition || undefined
handleDispositionChange(sf, d) ==
  [sf EXCEPT !.filters.disposition = IF d # <<>> THEN Str(d) ELSE NoDisposition]

\* SearchFilters.tsx lines 74-86
resetFilters(sf) ==
  [sf EXCEPT
     !.filters = InitialSearchFilters.filters,
     !.tempRange = <<0, 5000>>,
     !.radiusRange = <<0, 250>>]

\* SearchFilters.tsx lines 224-236: the Habitable Zone preset
HabitableZonePreset(sf) ==
  [sf EXCEPT
     !.tempRange = <<250, 350>>,
     !.radiusRange = <<8, 15>>,
     !.filters = [ min_temp    |-> Num(250),
                   max_temp    |-> Num(350),
                   min_radius  |-> Num(8),
                   max_radius  |-> Num(15),
                   disposition |-> Str(CONFIRMED) ]]

\* SearchFilters.tsx lines 242-247: the Hot Jupiters preset
HotJupitersPreset(sf) ==
  [sf EXCEPT
     !.tempRange = <<1000, 5000>>,
     !.filters = [@ EXCEPT !.min_temp = Num(1000), !.max_temp = Num(5000)]]

\* SearchFilters.tsx lines 253-258: the Earth-sized preset
EarthSizedPreset(sf) ==
  [sf EXCEPT
     !.radiusRange = <<5, 20>>,
     !.filters = [@ EXCEPT !.min_radius = Num(5), !.max_radius = Num(20)]]

\* SearchFilters.tsx lines 264-268: the Confirmed Only preset
ConfirmedOnlyPreset(sf) ==
  [sf EXCEPT !.filters.disposition = Str(CONFIRMED)]

\* DataUpload.tsx lines 180-187: the state of DataExplorer at its first
\* render.  planets is the page shown: the request it came from (0: none)
\* and its length.  pending holds the requests awaiting their response,
\* errors the requests whose failure console.error has logged, reported the
\* last argument of handleFilterChange.
InitialExplorer ==
  [ phase      |-> "rendered",
    planets    |-> [from |-> 0, length |-> 0],
    total      |-> [from |-> 0, value |-> 0],
    loading    |-> TRUE,
    filters    |-> [ limit       |-> 50,
                     offset      |-> 0,
                     min_temp    |-> undefined,
                     max_temp    |-> undefined,
                     min_radius  |-> undefined,
                     max_radius  |-> undefined,
                     disposition |-> NoDisposition ],
    pending    |-> {},
    errors     |-> {},
    issued     |-> 0,
    reported   |-> InitialSearchFilters.filters ]

\* api.ts lines 146-159: the query parameters of GET /exoplanets, the
\* entries of filters whose value is neither undefined nor null
QueryParams(filters) ==
  [key \in {k \in DOMAIN filters :
              IF k \in {"limit", "offset"} THEN TRUE
              ELSE filters[k].tag # "undefined"} |-> filters[key]]

\* DataUpload.tsx lines 193-204, up to the await: loadPlanets sets loading
\* and sends GET /exoplanets with the filters of the current render
loadPlanets(ex) ==
  [ex EXCEPT
     !.loading = TRUE,
     !.issued = @ + 1,
     !.pending = @ \cup {[id |-> ex.issued + 1, kind |-> "list",
                          params |-> QueryParams(ex.filters)]}]

\* DataUpload.tsx lines 189-191: every setFilters makes a new object, so the
\* effect on [filters] runs loadPlanets after the render
setFilters(ex, f) == loadPlanets([ex EXCEPT !.filters = f])

\* Mutant of handleFilterChange: the offset is kept.
handleFilterChange_KeepOffset(ex, newFilters) ==
  setFilters([ex EXCEPT !.reported = newFilters],
    [ex.filters EXCEPT
       !.min_temp = IF Truthy(Prop(newFilters, "habitabilityMin"))
                      THEN Num(250) ELSE undefined,
       !.max_temp = IF Truthy(Prop(newFilters, "habitabilityMin"))
                      THEN Num(350) ELSE undefined,
       !.disposition = IF StrictlyTrue(Prop(newFilters, "hasAtmosphere"))
                         THEN Str(CONFIRMED) ELSE NoDisposition])

\* DataUpload.tsx lines 224-233
handleFilterChange(ex, newFilters) ==
  setFilters([ex EXCEPT !.reported = newFilters],
    [ex.filters EXCEPT
       !.min_temp = IF Truthy(Prop(newFilters, "habitabilityMin"))
                      THEN Num(250) ELSE undefined,
       !.max_temp = IF Truthy(Prop(newFilters, "habitabilityMin"))
                      THEN Num(350) ELSE undefined,
       !.disposition = IF StrictlyTrue(Prop(newFilters, "hasAtmosphere"))
                         THEN Str(CONFIRMED) ELSE NoDisposition,
       !.offset = 0])

\* x || d for a number x
OrElse(x, d) == IF x = 0 THEN d ELSE x

\* Math.max(0, x)
Max0(x) == IF x < 0 THEN 0 ELSE x

\* DataUpload.tsx line 289: the Previous button
PreviousOffset(f) ==
  [f EXCEPT !.offset = Max0(OrElse(f.offset, 0) - OrElse(f.limit, 50))]

\* DataUpload.tsx line 296: the Next button
NextOffset(f) ==
  [f EXCEPT !.offset = OrElse(f.offset, 0) + OrElse(f.limit, 50)]

\* DataUpload.tsx lines 206-222, up to the await
handleSearch(ex, query) ==
  IF Trim(query) = <<>>
    THEN loadPlanets(ex)
    ELSE [ex EXCEPT
            !.loading = TRUE,
            !.issued = @ + 1,
            !.pending = @ \cup {[id |-> ex.issued + 1, kind |-> "search",
                                 params |-> [key \in {"q"} |-> Str(query)]]}]

\* DataUpload.tsx lines 197-198, 203 and 215-216, 220: the response of
\* request r arrives with a page of n planets out of t
Resolved(ex, r, n, t) ==
  [ex EXCEPT
     !.pending = @ \ {r},
     !.planets = [from |-> r.id, length |-> n],
     !.total = [from |-> r.id, value |-> t],
     !.loading = FALSE]

\* DataUpload.tsx lines 199-203 and 217-220: request r fails
Rejected(ex, r) ==
  [ex EXCEPT !.pending = @ \ {r}, !.errors = @ \cup {r.id}, !.loading = FALSE]

----------------------------------------------------------------------------
(* Inputs of the Data Explorer page *)

MaxRequests == 3   \* requests DataExplorer sends, the one at mount included

\* positions of the temperature sliders (0..5000, step 50) and of the radius
\* sliders (0..25, step 0.5): both ends and one position between
TempSliderValues == {0, 1000, 5000}
RadiusSliderValues == {0, 20, 250}

\* SearchFilters.tsx lines 210-213: the options of the status select
DispositionOptions == {<<>>, CONFIRMED, CANDIDATE, FALSE_}

\* what the user types in the search box: nothing, a blank, a name
Queries == {<<>>, <<" ">>, <<"k">>}

\* what the service answers: <<length of the page, total>>
ServerPages == {<<0, 0>>, <<50, 120>>}

----------------------------------------------------------------------------
(* The steps of the Data Explorer page *)

ExplorerInit ==
  /\ temperature = undefined
  /\ radius = undefined
  /\ disposition = NoDisposition
  /\ visuals = NoVisuals
  /\ planetColor = NotCalled
  /\ viz = NotMounted(DefaultConfig, 0, 0)
  /\ searchFilters = InitialSearchFilters
  /\ explorer = InitialExplorer
  /\ ask = NotRendered
  /\ request = NotRendered
  /\ starfield = NotRendered

notExplorer == <<mapperVars, viz, ask, request, starfield>>

\* DataUpload.tsx lines 189-191: the effect after the first render
ExplorerMount ==
  /\ explorer.phase = "rendered"
  /\ explorer' = loadPlanets([explorer EXCEPT !.phase = "mounted"])
  /\ UNCHANGED <<searchFilters, notExplorer>>

\* the filter controls are shown and DataExplorer can send one more request
CanFilter ==
  /\ explorer.phase = "mounted"
  /\ searchFilters.showFilters
  /\ explorer.issued < MaxRequests

\* SearchFilters.tsx line 110
ToggleFilters ==
  /\ explorer.phase = "mounted"
  /\ searchFilters' = [searchFilters EXCEPT !.showFilters = ~@]
  /\ UNCHANGED <<explorer, notExplorer>>

\* SearchFilters.tsx lines 144, 157: a temperature slider is moved
TempRangeChange ==
  /\ CanFilter
  /\ \E index \in {1, 2}, value \in TempSliderValues :
       /\ searchFilters' = handleTempRangeChange(searchFilters, index, value)
       /\ explorer' = handleFilterChange(explorer, searchFilters'.filters)
  /\ UNCHANGED notExplorer

\* SearchFilters.tsx lines 179, 192: a radius slider is moved
RadiusRangeChange ==
  /\ CanFilter
  /\ \E index \in {1, 2}, value \in RadiusSliderValues :
       /\ searchFilters' = handleRadiusRangeChange(searchFilters, index, value)
       /\ explorer' = handleFilterChange(explorer, searchFilters'.filters)
  /\ UNCHANGED notExplorer

\* SearchFilters.tsx line 207: a status is selected
DispositionChange ==
  /\ CanFilter
  /\ \E d \in DispositionOptions :
       /\ searchFilters' = handleDispositionChange(searchFilters, d)
       /\ explorer' = handleFilterChange(explorer, searchFilters'.filters)
  /\ UNCHANGED notExplorer

\* SearchFilters.tsx line 119: Reset All
ResetFilters ==
  /\ CanFilter
  /\ searchFilters' = resetFilters(searchFilters)
  /\ explorer' = handleFilterChange(explorer, searchFilters'.filters)
  /\ UNCHANGED notExplorer

\* SearchFilters.tsx lines 223-272: the four quick presets
HabitableZone ==
  /\ CanFilter
  /\ searchFilters' = HabitableZonePreset(searchFilters)
  /\ explorer' = handleFilterChange(explorer, searchFilters'.filters)
  /\ UNCHANGED notExplorer

HotJupiters ==
  /\ CanFilter
  /\ searchFilters' = HotJupitersPreset(searchFilters)
  /\ explorer' = handleFilterChange(explorer, searchFilters'.filters)
  /\ UNCHANGED notExplorer

EarthSized ==
  /\ CanFilter
  /\ searchFilters' = EarthSizedPreset(searchFilters)
  /\ explorer' = handleFilterChange(explorer, searchFilters'.filters)
  /\ UNCHANGED notExplorer

ConfirmedOnly ==
  /\ CanFilter
  /\ searchFilters' = ConfirmedOnlyPreset(searchFilters)
  /\ explorer' = handleFilterChange(explorer, searchFilters'.filters)
  /\ UNCHANGED notExplorer

\* SearchFilters.tsx lines 28-30: typing in the search box
SearchChange ==
  /\ explorer.phase = "mounted"
  /\ \E q \in Queries \ {searchFilters.searchQuery} :
       searchFilters' = [searchFilters EXCEPT !.searchQuery = q]
  /\ UNCHANGED <<explorer, notExplorer>>

\* SearchFilters.tsx lines 32-35: the search form is submitted
SearchSubmit ==
  /\ explorer.phase = "mounted"
  /\ explorer.issued < MaxRequests
  /\ explorer' = handleSearch(explorer, searchFilters.searchQuery)
  /\ UNCHANGED <<searchFilters, notExplorer>>

\* DataUpload.tsx lines 288-294: Previous, enabled unless the offset is 0
Previous ==
  /\ explorer.phase = "mounted"
  /\ explorer.issued < MaxRequests
  /\ explorer.filters.offset # 0
  /\ explorer' = setFilters(explorer, PreviousOffset(explorer.filters))
  /\ UNCHANGED <<searchFilters, notExplorer>>

\* DataUpload.tsx lines 295-301: Next, enabled while the page shown is not
\* empty and does not reach the total
NextPage ==
  /\ explorer.phase = "mounted"
  /\ explorer.issued < MaxRequests
  /\ explorer.planets.length # 0
  /\ OrElse(explorer.filters.offset, 0) + explorer.planets.length
       < explorer.total.value
  /\ explorer' = setFilters(explorer, NextOffset(explorer.filters))
  /\ UNCHANGED <<searchFilters, notExplorer>>

\* a response arrives for one of the requests awaiting theirs
Resolve ==
  /\ \E r \in explorer.pending, page \in ServerPages :
       explorer' = Resolved(explorer, r, page[1], page[2])
  /\ UNCHANGED <<searchFilters, notExplorer>>

\* one of the requests fails
Reject ==
  /\ \E r \in explorer.pending :
       explorer' = Rejected(explorer, r)
  /\ UNCHANGED <<searchFilters, notExplorer>>

ExplorerNext ==
  \/ ExplorerMount
  \/ ToggleFilters
  \/ TempRangeChange
  \/ RadiusRangeChange
  \/ DispositionChange
  \/ ResetFilters
  \/ HabitableZone
  \/ HotJupiters
  \/ EarthSized
  \/ ConfirmedOnly
  \/ SearchChange
  \/ SearchSubmit
  \/ Previous
  \/ NextPage
  \/ Resolve
  \/ Reject

ExplorerSpec == ExplorerInit /\ [][ExplorerNext]_vars

----------------------------------------------------------------------------
(* Properties of the Data Explorer page, checked under ExplorerSpec *)

\* the five values SearchFilters reports
ReportedFields ==
  {"min_temp", "max_temp", "min_radius", "max_radius", "disposition"}

\* a === b for two optional values
SameValue(a, b) ==
  /\ a.tag = b.tag
  /\ a.tag \in {"number", "string"} => a.val = b.val

\* C23: once every request has completed, and the one issued last did not
\* fail, the planets and the total shown are those of its response, in
\* whatever order the responses arrived.
C23_LastIssuedWins ==
  ( /\ explorer.issued >= 1
    /\ explorer.pending = {}
    /\ explorer.issued \notin explorer.errors )
  => /\ explorer.planets.from = explorer.issued
     /\ explorer.total.from = explorer.issued

\* C24: once DataExplorer has sent its first request, loading is true
\* exactly while at least one request is outstanding.
C24_LoadingIffOutstanding ==
  explorer.phase = "mounted" =>
    (explorer.loading <=> explorer.pending # {})

\* C26: the filters DataExplorer holds, and sends with its next /exoplanets
\* request, carry the min_temp, max_temp, min_radius, max_radius and
\* disposition that SearchFilters reported last.
C26_ReportedFiltersUsed ==
  explorer.phase = "mounted" =>
    /\ \A k \in ReportedFields :
         SameValue(explorer.filters[k], explorer.reported[k])
    /\ \A r \in explorer.pending :
         r.kind = "list" /\ r.id = explorer.issued =>
           \A k \in ReportedFields :
             SameValue(Prop(r.params, k), explorer.reported[k])

\* a step in which SearchFilters reports a filter change
FilterChange ==
  \/ TempRangeChange
  \/ RadiusRangeChange
  \/ DispositionChange
  \/ ResetFilters
  \/ HabitableZone
  \/ HotJupiters
  \/ EarthSized
  \/ ConfirmedOnly

\* C27: the offset is always a non-negative multiple of the limit, 50;
\* Previous leaves an offset of 0 at 0 and never makes it negative; every
\* filter change sets the offset to 0 and keeps the limit.
C27_OffsetMultipleOfLimit ==
  /\ [](explorer.phase = "mounted" =>
          /\ explorer.filters.limit = 50
          /\ explorer.filters.offset >= 0
          /\ explorer.filters.offset % 50 = 0
          /\ PreviousOffset(explorer.filters).offset >= 0
          /\ explorer.filters.offset = 0 =>
               PreviousOffset(explorer.filters).offset = 0)
  /\ [][ FilterChange =>
           /\ explorer'.filters.offset = 0
           /\ explorer'.filters.limit = explorer.filters.limit ]_vars

\* Next moved to the second page, then a filter change went back to offset 0
C27_Witness ==
  /\ explorer.issued = 3
  /\ explorer.filters.offset = 0
  /\ \E r \in explorer.pending :
       r.id = 2 /\ r.kind = "list" /\ r.params["offset"] = 50
  /\ \E r \in explorer.pending :
       r.id = 3 /\ r.kind = "list" /\ r.params["offset"] = 0

\* C29: the filters SearchFilters holds and reported last agree with its
\* sliders: min_temp (max_temp) is undefined exactly when the minimum
\* (maximum) temperature slider is at 0 (5000) and is the slider's value
\* otherwise; likewise min_radius and max_radius with 0 and 25.
C29_FiltersAgreeWithSliders ==
  explorer.phase = "mounted" =>
    LET f == searchFilters.filters
        t == searchFilters.tempRange
        r == searchFilters.radiusRange
    IN  /\ explorer.reported = f
        /\ f.min_temp = IF t[1] = 0 THEN undefined ELSE Num(t[1])
        /\ f.max_temp = IF t[2] = 5000 THEN undefined ELSE Num(t[2])
        /\ f.min_radius = IF r[1] = 0 THEN undefined ELSE Num(r[1])
        /\ f.max_radius = IF r[2] = 250 THEN undefined ELSE Num(r[2])

----------------------------------------------------------------------------
(***************************************************************************)
(* Part 4: the AskAnalysis page, unnamed/part_002 lines 5-48.              *)
(*                                                                         *)
(* handleAsk sends one question to the service and appends the outcome to  *)
(* the conversation.  A template literal `Error: ${m}` is the pair         *)
(* <<"Error: ", m>>, a plain answer a is <<a>>.                            *)
(***************************************************************************)

\* part_002 lines 6-13: the state after the first render.  pending holds the
\* calls of api.askQuestion awaiting their outcome, asked the questions of
\* all calls made, in order.
InitialAsk ==
  [ phase        |-> "rendered",
    question     |-> <<>>,
    conversation |-> <<>>,
    loading      |-> FALSE,
    style        |-> "brief",
    pending      |-> {},
    asked        |-> <<>> ]

\* Mutant of handleAsk: a submission is accepted while one is in flight.
handleAsk_NoLoadingGuard(a) ==
  IF Trim(a.question) = <<>>
    THEN a
    ELSE [a EXCEPT
            !.question = <<>>,
            !.loading = TRUE,
            !.asked = Append(@, a.question),
            !.pending = @ \cup {[id |-> Len(a.asked) + 1,
                                 question |-> a.question,
                                 style |-> a.style]}]

\* part_002 lines 24-33, up to the await
handleAsk(a) ==
  IF Trim(a.question) = <<>> \/ a.loading
    THEN a
    ELSE [a EXCEPT
            !.question = <<>>,
            !.loading = TRUE,
            !.asked = Append(@, a.question),
            !.pending = @ \cup {[id |-> Len(a.asked) + 1,
                                 question |-> a.question,
                                 style |-> a.style]}]

\* part_002 lines 34-38, 46: the service answers call c
Answered(a, c, response) ==
  [a EXCEPT
     !.pending = @ \ {c},
     !.conversation = Append(@, [ question        |-> c.question,
                                  answer          |-> <<response.answer>>,
                                  recordsAnalyzed |-> response.records_analyzed ]),
     !.loading = FALSE]

\* part_002 lines 39-46: call c fails with an Error carrying message
Failed(a, c, message) ==
  [a EXCEPT
     !.pending = @ \ {c},
     !.conversation = Append(@, [ question        |-> c.question,
                                  answer          |-> <<"Error: ", message>>,
                                  recordsAnalyzed |-> 0 ]),
     !.loading = FALSE]

MaxAsks == 2   \* calls of api.askQuestion

\* what can be in the question box: nothing, a blank, two questions
Questions == {<<>>, <<" ">>, <<"q">>, <<"r">>}

\* part_002 lines 15-22: the example questions
ExampleQuestions == {<<"r">>}

\* AskResponse, api.ts lines 48-53
AskResponses ==
  {[answer |-> "42 planets", records_analyzed |-> 42],
   [answer |-> "none", records_analyzed |-> 0]}

\* the messages of the Errors ExoplanetAPI.request throws, api.ts line 125
ErrorMessages == {"Request failed", "HTTP 500"}

AskInit ==
  /\ temperature = undefined
  /\ radius = undefined
  /\ disposition = NoDisposition
  /\ visuals = NoVisuals
  /\ planetColor = NotCalled
  /\ viz = NotMounted(DefaultConfig, 0, 0)
  /\ searchFilters = NotRendered
  /\ explorer = NotRendered
  /\ ask = InitialAsk
  /\ request = NotRendered
  /\ starfield = NotRendered

notAsk == <<mapperVars, viz, searchFilters, explorer, request, starfield>>

\* part_002 lines 50-52, 77: an example is clicked (at any time); line 160:
\* the user types (the input is disabled while loading, line 163)
SetQuestion ==
  /\ \E q \in Questions \ {ask.question} :
       /\ ask.loading => q \in ExampleQuestions
       /\ ask' = [ask EXCEPT !.question = q]
  /\ UNCHANGED notAsk

\* part_002 lines 134, 145
SetStyle ==
  /\ \E st \in {"brief", "detailed"} \ {ask.style} :
       ask' = [ask EXCEPT !.style = st]
  /\ UNCHANGED notAsk

\* part_002 line 130: the form is submitted
SubmitAsk ==
  /\ Len(ask.asked) < MaxAsks
  /\ ask' = handleAsk(ask)
  /\ UNCHANGED notAsk

AskAnswered ==
  /\ \E c \in ask.pending, response \in AskResponses :
       ask' = Answered(ask, c, response)
  /\ UNCHANGED notAsk

AskFailed ==
  /\ \E c \in ask.pending, message \in ErrorMessages :
       ask' = Failed(ask, c, message)
  /\ UNCHANGED notAsk

AskNext == SetQuestion \/ SetStyle \/ SubmitAsk \/ AskAnswered \/ AskFailed

AskSpec == AskInit /\ [][AskNext]_vars

----------------------------------------------------------------------------
(* Properties of the AskAnalysis page, checked under AskSpec *)

\* C25: at most one ask request is in flight and loading is true exactly
\* while it is; every accepted submission has, once its request completed,
\* exactly one entry, the entries are in submission order and hold the
\* submitted question with the service's answer and record count or with
\* an 'Error: ...' answer and 0 records; a submission while loading, or of a
\* blank question, sends nothing.
C25_OneEntryPerSubmission ==
  /\ [](/\ Cardinality(ask.pending) <= 1
        /\ ask.loading <=> ask.pending # {}
        /\ Len(ask.conversation) + Cardinality(ask.pending) = Len(ask.asked)
        /\ \A c \in ask.pending : c.id = Len(ask.asked)
        /\ \A i \in 1..Len(ask.conversation) :
             LET entry == ask.conversation[i]
             IN  /\ entry.question = ask.asked[i]
                 /\ Trim(entry.question) # <<>>
                 /\ \/ \E response \in AskResponses :
                         /\ entry.answer = <<response.answer>>
                         /\ entry.recordsAnalyzed = response.records_analyzed
                    \/ /\ Len(entry.answer) = 2
                       /\ entry.answer[1] = "Error: "
                       /\ entry.recordsAnalyzed = 0)
  /\ [][ /\ ask.loading \/ Trim(ask.question) = <<>> =>
              ask'.asked = ask.asked
         /\ Len(ask'.conversation) \in
              {Len(ask.conversation), Len(ask.conversation) + 1}
         /\ SubSeq(ask'.conversation, 1, Len(ask.conversation))
              = ask.conversation ]_vars

\* two submissions, the first failed and the second answered; the second
\* question was put in the box by an example click during the first request
C25_Witness ==
  /\ Len(ask.conversation) = 2
  /\ ask.conversation[1].question = <<"q">>
  /\ ask.conversation[1].answer = <<"Error: ", "HTTP 500">>
  /\ ask.conversation[2].question = <<"r">>
  /\ ask.conversation[2].answer = <<"42 planets">>
  /\ ~ask.loading

----------------------------------------------------------------------------
(***************************************************************************)
(* Part 5: ExoplanetAPI.request, frontend/src/services/api.ts 108-133.     *)
(*                                                                         *)
(* One call: fetch, then response.json() on one of two paths.  A response  *)
(* body is a record: kind "text" is not JSON, kinds "object", "null" and   *)
(* "number" are JSON values; an object may have an error property.  An     *)
(* exception is a record of its class and message; a template literal      *)
(* `HTTP ${status}` is the pair <<"HTTP ", status>>.                       *)
(***************************************************************************)

\* the Response.ok of the fetch standard
Ok(status) == status \in 200..299

\* response.json() succeeds
ParsesAsJson(body) == body.kind # "text"

\* a body that is not an object: text that is not JSON, null, or a number
PlainBody(kind) == [kind |-> kind, hasError |-> FALSE, error |-> ""]

\* a JSON object, with or without an error property
ObjectBody(hasError, error) ==
  [kind |-> "object", hasError |-> hasError, error |-> error]

Exception(name, message) == [name |-> name, message |-> message]

\* the TypeError of fetch when the network fails
FailedToFetch == Exception("TypeError", <<"Failed to fetch">>)

\* the SyntaxError of response.json() on a body that is not JSON
NotJson == Exception("SyntaxError", <<"Unexpected token">>)

\* the TypeError of reading a property of null
NullProperty == Exception("TypeError", <<"Cannot read properties of null">>)

\* api.ts lines 124-125: the exception thrown for a response that is not ok
ErrorFor(status, body) ==
  LET error == IF ParsesAsJson(body) THEN body
               ELSE ObjectBody(TRUE, "Request failed")
  IN  IF error.kind = "null" THEN NullProperty
      ELSE IF error.kind = "object" /\ error.hasError /\ error.error # ""
             THEN Exception("Error", <<error.error>>)
             ELSE Exception("Error", <<"HTTP ", status>>)

\* before the call: nothing fetched, no response, no outcome
NotSettled == [state |-> "pending", value |-> PlainBody("text"), error |-> Exception("", <<>>)]

IdleRequest(endpoint) ==
  [ phase    |-> "idle",
    endpoint |-> endpoint,
    fetches  |-> 0,
    status   |-> 0,
    body     |-> PlainBody("text"),
    outcome  |-> NotSettled ]

Endpoints == {"/health", "/stats", "/ask"}
Statuses == {200, 404, 500}
Bodies ==
  {PlainBody("text"), ObjectBody(TRUE, "Invalid query"), ObjectBody(TRUE, ""),
   ObjectBody(FALSE, ""), PlainBody("null"), PlainBody("number")}

ApiRequestInit ==
  /\ temperature = undefined
  /\ radius = undefined
  /\ disposition = NoDisposition
  /\ visuals = NoVisuals
  /\ planetColor = NotCalled
  /\ viz = NotMounted(DefaultConfig, 0, 0)
  /\ searchFilters = NotRendered
  /\ explorer = NotRendered
  /\ ask = NotRendered
  /\ \E endpoint \in Endpoints : request = IdleRequest(endpoint)
  /\ starfield = NotRendered

notRequest == <<mapperVars, viz, searchFilters, explorer, ask, starfield>>

\* api.ts lines 112-121: request is called and calls fetch
CallFetch ==
  /\ request.phase = "idle"
  /\ request' = [request EXCEPT !.phase = "fetching", !.fetches = @ + 1]
  /\ UNCHANGED notRequest

\* fetch rejects: lines 129-132 log and rethrow the error
FetchFails ==
  /\ request.phase = "fetching"
  /\ request' = [request EXCEPT
                   !.phase = "settled",
                   !.outcome = [NotSettled EXCEPT !.state = "rejected",
                                                  !.error = FailedToFetch]]
  /\ UNCHANGED notRequest

\* fetch resolves with a response: line 123 chooses the path
FetchResponds ==
  /\ request.phase = "fetching"
  /\ \E status \in Statuses, body \in Bodies :
       request' = [request EXCEPT
                     !.phase = IF Ok(status) THEN "reading" ELSE "reading error",
                     !.status = status,
                     !.body = body]
  /\ UNCHANGED notRequest

\* api.ts lines 124-125, 129-132: the error body has been read
ThrowError ==
  /\ request.phase = "reading error"
  /\ request' = [request EXCEPT
                   !.phase = "settled",
                   !.outcome = [NotSettled EXCEPT
                                  !.state = "rejected",
                                  !.error = ErrorFor(request.status, request.body)]]
  /\ UNCHANGED notRequest

\* api.ts lines 128-132: the body of an ok response has been read
ReturnBody ==
  /\ request.phase = "reading"
  /\ request' = [request EXCEPT
                   !.phase = "settled",
                   !.outcome = IF ParsesAsJson(request.body)
                                 THEN [NotSettled EXCEPT !.state = "resolved",
                                                         !.value = request.body]
                                 ELSE [NotSettled EXCEPT !.state = "rejected",
                                                         !.error = NotJson]]
  /\ UNCHANGED notRequest

RequestNext ==
  CallFetch \/ FetchFails \/ FetchResponds \/ ThrowError \/ ReturnBody

RequestSpec == ApiRequestInit /\ [][RequestNext]_vars

----------------------------------------------------------------------------
(* Properties of ExoplanetAPI.request, checked under RequestSpec *)

\* C28: a settled call has fetched exactly once.  It resolved only for an ok
\* response, with the parsed body.  For a response that is not ok it
\* rejected with an Error whose message is the body's error field when the
\* body is a JSON object that has one, 'Request failed' when the body is not
\* JSON, and 'HTTP <status>' when the body is JSON without an error field.
\* When fetch failed it rejected with fetch's error.
C28_RequestOutcome ==
  request.phase = "settled" =>
    LET out == request.outcome
        body == request.body
    IN  /\ request.fetches = 1
        /\ out.state = "resolved" =>
             Ok(request.status) /\ ParsesAsJson(body) /\ out.value = body
        /\ request.status = 0 =>
             out.state = "rejected" /\ out.error = FailedToFetch
        /\ request.status # 0 /\ ~Ok(request.status) =>
             /\ out.state = "rejected"
             /\ out.error.name = "Error"
             /\ out.error.message =
                  IF ~ParsesAsJson(body) THEN <<"Request failed">>
                  ELSE IF body.kind = "object" /\ body.hasError
                         THEN <<body.error>>
                         ELSE <<"HTTP ", request.status>>

----------------------------------------------------------------------------
(***************************************************************************)
(* Part 6: StarfieldBackground, src/unnamed/part_000.                      *)
(*                                                                         *)
(* Depths and speeds are in tenths, so maxDepth (1000 in the source) is    *)
(* 10000 and a speed of 0.2 is 2.  Lengths of the window and the canvas    *)
(* are in hundreds of pixels.  A value of Math.random() is in tenths.      *)
(* The size of a star and what animate draws (lines 48-49, 65-92) do not   *)
(* change a star and are left out.                                         *)
(***************************************************************************)

\* line 31: the number of stars, 200 in the source
numStars == 2

\* line 32, in tenths
maxDepth == 10000

\* values of Math.random(), in tenths
Randoms == {0, 5}

\* lines 36-37, 61-62: Math.random() * length - length / 2
Coordinate(random, length) == (random * length) \div 10 - length \div 2

\* line 38: Math.random() * maxDepth, in tenths
InitialDepths == {0, 4, 9999}

\* line 40: 0.2 + Math.random() * 0.3, in tenths
Speeds == {2, 4}

\* window.innerWidth and window.innerHeight
WindowSizes == {<<8, 6>>, <<4, 4>>}

\* the component before its effect has run
InitialStarfield(window) ==
  [ phase       |-> "rendered",
    window      |-> window,
    canvas      |-> <<3, 1>>,
    listeners   |-> 0,
    stars       |-> <<>>,
    animationId |-> 0,
    pending     |-> {},
    requested   |-> 0,
    steps       |-> 0 ]

\* lines 14-17
resizeCanvas(sf) == [sf EXCEPT !.canvas = sf.window]

\* lines 35-43: one star from three values of Math.random() and a speed
NewStar(sf, rx, ry, z, speed) ==
  [ x     |-> Coordinate(rx, sf.canvas[1]),
    y     |-> Coordinate(ry, sf.canvas[2]),
    z     |-> z,
    speed |-> speed ]

\* lines 54-64 without the reset of lines 59-63
MoveStar_NoReset(sf, star, rx, ry) == [star EXCEPT !.z = @ - star.speed]

\* lines 54-64: one star of the forEach
MoveStar(sf, star, rx, ry) ==
  LET z == star.z - star.speed
  IN  IF z <= 0
        THEN [star EXCEPT !.z = maxDepth,
                          !.x = Coordinate(rx, sf.canvas[1]),
                          !.y = Coordinate(ry, sf.canvas[2])]
        ELSE [star EXCEPT !.z = z]

\* lines 47-96: one step; draws[i] are the values of Math.random() for star i
animate(sf, draws) ==
  [sf EXCEPT
     !.stars = [i \in 1..Len(sf.stars) |->
                  MoveStar(sf, sf.stars[i], draws[i][1], draws[i][2])],
     !.steps = @ + 1,
     !.requested = @ + 1,
     !.animationId = sf.requested + 1,
     !.pending = @ \cup {sf.requested + 1}]

\* lines 100-103
cleanup(sf) ==
  [sf EXCEPT !.phase = "unmounted",
             !.listeners = 0,
             !.pending = @ \ {sf.animationId}]

MaxSteps == 3   \* runs of animate, the one of line 98 included

Draws == [1..numStars -> Randoms \X Randoms]

StarfieldInit ==
  /\ temperature = undefined
  /\ radius = undefined
  /\ disposition = NoDisposition
  /\ visuals = NoVisuals
  /\ planetColor = NotCalled
  /\ viz = NotMounted(DefaultConfig, 0, 0)
  /\ searchFilters = NotRendered
  /\ explorer = NotRendered
  /\ ask = NotRendered
  /\ request = NotRendered
  /\ \E window \in WindowSizes : starfield = InitialStarfield(window)

notStarfield == <<mapperVars, viz, searchFilters, explorer, ask, request>>

\* lines 6-98: the effect, when the canvas has a 2d context
StarfieldMount ==
  /\ starfield.phase = "rendered"
  /\ \E draws \in Draws, depths \in [1..numStars -> InitialDepths],
        speeds \in [1..numStars -> Speeds], resets \in Draws :
       LET sized == resizeCanvas(starfield)
           made == [sized EXCEPT
                      !.phase = "mounted",
                      !.listeners = 1,
                      !.stars = [i \in 1..numStars |->
                                   NewStar(sized, draws[i][1], draws[i][2],
                                           depths[i], speeds[i])]]
       IN  starfield' = animate(made, resets)
  /\ UNCHANGED notStarfield

\* lines 10-11: getContext returns null and the effect returns
StarfieldMountNoContext ==
  /\ starfield.phase = "rendered"
  /\ starfield' = [starfield EXCEPT !.phase = "no context"]
  /\ UNCHANGED notStarfield

\* a requested frame runs animate
StarfieldFrame ==
  /\ starfield.pending # {}
  /\ starfield.steps < MaxSteps
  /\ \E id \in starfield.pending, draws \in Draws :
       starfield' = animate([starfield EXCEPT !.pending = @ \ {id}], draws)
  /\ UNCHANGED notStarfield

\* the window is resized; the listener of line 19, when registered, runs
StarfieldResize ==
  /\ starfield.phase \in {"mounted", "no context", "unmounted"}
  /\ \E window \in WindowSizes :
       /\ window # starfield.window
       /\ LET resized == [starfield EXCEPT !.window = window]
          IN  starfield' = IF starfield.listeners > 0
                             THEN resizeCanvas(resized)
                             ELSE resized
  /\ UNCHANGED notStarfield

\* the component unmounts; the cleanup of lines 100-103 runs when the effect
\* returned one
StarfieldUnmount ==
  /\ starfield.phase \in {"mounted", "no context"}
  /\ starfield' = IF starfield.phase = "mounted"
                    THEN cleanup(starfield)
                    ELSE [starfield EXCEPT !.phase = "unmounted"]
  /\ UNCHANGED notStarfield

StarfieldNext ==
  \/ StarfieldMount
  \/ StarfieldMountNoContext
  \/ StarfieldFrame
  \/ StarfieldResize
  \/ StarfieldUnmount

StarfieldSpec == StarfieldInit /\ [][StarfieldNext]_vars

----------------------------------------------------------------------------
(* Properties of StarfieldBackground, checked under StarfieldSpec *)

\* the star was moved to or past the camera by the step
PastCamera(star) == star.z - star.speed <= 0

\* C30: once animate has run, there are numStars stars and each has a depth
\* above 0 and at most maxDepth; a step resets a star that reached depth 0 or
\* below to maxDepth and to a position drawn for the canvas, and leaves the
\* position of every other star alone; after unmount no frame is pending, no
\* resize listener is registered, and no further step runs.
C30_DepthInRange ==
  /\ [](/\ starfield.steps >= 1 =>
             /\ Len(starfield.stars) = numStars
             /\ \A i \in 1..numStars :
                  starfield.stars[i].z > 0 /\ starfield.stars[i].z <= maxDepth
        /\ starfield.phase = "unmounted" =>
             starfield.pending = {} /\ starfield.listeners = 0)
  /\ [][/\ starfield.steps >= 1 /\ starfield'.steps > starfield.steps =>
             \A i \in 1..numStars :
               LET star == starfield.stars[i]
                   moved == starfield'.stars[i]
               IN  IF PastCamera(star)
                     THEN /\ moved.z = maxDepth
                          /\ \E rx, ry \in Randoms :
                               /\ moved.x = Coordinate(rx, starfield.canvas[1])
                               /\ moved.y = Coordinate(ry, starfield.canvas[2])
                     ELSE /\ moved.z = star.z - star.speed
                          /\ moved.x = star.x /\ moved.y = star.y
        /\ starfield.phase = "unmounted" =>
             starfield'.steps = starfield.steps]_vars

\* animate has run twice, a star that started at depth 0.4 with speed 0.2 has
\* just been reset on reaching depth exactly 0, and the component has been
\* unmounted with its frame cancelled
C30_Witness ==
  /\ starfield.phase = "unmounted"
  /\ starfield.steps = 2
  /\ starfield.requested = 2
  /\ starfield.stars[1].z = maxDepth
  /\ starfield.stars[1].speed = 2
  /\ starfield.stars[2].z = 9991
  /\ starfield.stars[2].speed = 4

====
